---- MODULE Spec2Model ----
(***************************************************************************)
(* Model of scripts/cbonds_fetch.py: main() resolves an ISIN to a cbonds   *)
(* ETF id, fetches the ETF page, extracts the embedded `structure` array,  *)
(* normalizes it into a holdings list, sorts it and prints one JSON        *)
(* object.                                                                 *)
(*                                                                         *)
(* Representation.                                                         *)
(*  - A JSON value is a record [t, v, s]: t is its type ("absent" stands   *)
(*    for a key that the mapping does not have), v the number of a "num"   *)
(*    (or the truth value 0/1 of a "bool"), s the characters of a "str".   *)
(*  - Numbers are finite decimals counted in millionths (Unit = 10^-6), so *)
(*    0.045573 is 45573 and 4.56 is 4560000.  NaN, the infinities and      *)
(*    integers beyond the float range are outside the modelled values.     *)
(*  - A string is a sequence of one-character strings.                     *)
(*  - A raw record is a function from Fields to JSON values.  The order of *)
(*    the keys inside a JSON object is not modelled: keys are listed in    *)
(*    the order of FieldOrder.                                             *)
(*  - A holdings entry carries, besides the keys the script prints, the    *)
(*    bookkeeping field src: the index of the raw record it came from.     *)
(***************************************************************************)
EXTENDS Integers, Sequences, FiniteSets, TLC

\* ------------------------------------------------------------------ bounds
\* Longest `structure` array drawn from MixRecords.
MaxLen == 3

\* ------------------------------------------------------------- JSON values
Absent == [t |-> "absent", v |-> 0, s |-> <<>>]
Null == [t |-> "null", v |-> 0, s |-> <<>>]
Num(n) == [t |-> "num", v |-> n, s |-> <<>>]
Str(chars) == [t |-> "str", v |-> 0, s |-> chars]
Bool(b) == [t |-> "bool", v |-> IF b THEN 1 ELSE 0, s |-> <<>>]
EmptyList == [t |-> "list", v |-> 0, s |-> <<>>]
EmptyMap == [t |-> "map", v |-> 0, s |-> <<>>]

\* Python truth value of a JSON value, as `or` and `if not x` test it.
Truthy(x) ==
    CASE x.t = "num" -> x.v # 0
      [] x.t = "bool" -> x.v = 1
      [] x.t = "str" -> x.s # <<>>
      [] OTHER -> FALSE

\* dict.get(key, default): the value under the key when the mapping has the
\* key (a null included), the default otherwise.
Get(item, key, default) == IF item[key].t = "absent" THEN default ELSE item[key]

\* a or b
Or(a, b) == IF Truthy(a) THEN a ELSE b

\* ----------------------------------------------------------------- strings
IsSpace(c) == c = " "

RECURSIVE LStrip(_)
LStrip(chars) ==
    IF chars # <<>> /\ IsSpace(Head(chars)) THEN LStrip(Tail(chars)) ELSE chars

RECURSIVE RStrip(_)
RStrip(chars) ==
    IF chars # <<>> /\ IsSpace(chars[Len(chars)])
    THEN RStrip(SubSeq(chars, 1, Len(chars) - 1))
    ELSE chars

\* str.strip()
Strip(chars) == RStrip(LStrip(chars))

\* ----------------------------------------------------------------- numbers
DigitValue(c) ==
    CASE c = "0" -> 0 [] c = "1" -> 1 [] c = "2" -> 2 [] c = "3" -> 3
      [] c = "4" -> 4 [] c = "5" -> 5 [] c = "6" -> 6 [] c = "7" -> 7
      [] c = "8" -> 8 [] c = "9" -> 9 [] OTHER -> -1

IsDigits(chars) == chars # <<>> /\ \A i \in 1..Len(chars) : DigitValue(chars[i]) >= 0

RECURSIVE DigitsValue(_)
DigitsValue(chars) ==
    IF chars = <<>> THEN 0
    ELSE 10 * DigitsValue(SubSeq(chars, 1, Len(chars) - 1)) + DigitValue(chars[Len(chars)])

RECURSIVE Pow10(_)
Pow10(n) == IF n <= 0 THEN 1 ELSE 10 * Pow10(n - 1)

\* One, in the millionths numbers are counted in.
Unit == Pow10(6)

\* Position of the first "." in chars, 0 when there is none.
DotAt(chars) ==
    IF \E i \in 1..Len(chars) : chars[i] = "."
    THEN CHOOSE i \in 1..Len(chars) : chars[i] = "." /\ \A j \in 1..(i - 1) : chars[j] # "."
    ELSE 0

\* float(str) on the decimal literals digits[.digits] with at most six
\* fraction digits, surrounding whitespace ignored: [ok, v].  Every other
\* string of the model raises ValueError (ok = FALSE).
ParseFloat(chars) ==
    LET body == Strip(chars)
        dot == DotAt(body)
        whole == IF dot = 0 THEN body ELSE SubSeq(body, 1, dot - 1)
        frac == IF dot = 0 THEN <<>> ELSE SubSeq(body, dot + 1, Len(body))
    IN  IF IsDigits(whole) /\ (dot = 0 \/ IsDigits(frac)) /\ Len(frac) <= 6
        THEN [ok |-> TRUE,
              v |-> DigitsValue(whole) * Unit + DigitsValue(frac) * Pow10(6 - Len(frac))]
        ELSE [ok |-> FALSE, v |-> 0]

\* float(x): [ok, v]; ok = FALSE stands for ValueError or TypeError.
ToFloat(x) ==
    CASE x.t = "num" -> [ok |-> TRUE, v |-> x.v]
      [] x.t = "bool" -> [ok |-> TRUE, v |-> x.v * Unit]
      [] x.t = "str" -> ParseFloat(x.s)
      [] OTHER -> [ok |-> FALSE, v |-> 0]

\* Round2 cutting the digits after the second place instead of rounding.
Round2Truncating(x) == (x \div (Unit \div 100)) * (Unit \div 100)

\* round(x, 2): the nearest multiple of 0.01, a tie going to the even one.
Round2(x) ==
    LET step == Unit \div 100
        low == (x \div step) * step
        rest == x - low
    IN  IF 2 * rest < step THEN low
        ELSE IF 2 * rest > step THEN low + step
        ELSE IF (low \div step) % 2 = 0 THEN low ELSE low + step

\* ------------------------------------------------------------- raw records
Fields ==
    {"asset_name", "weight.numeric", "weight.rounded", "isin", "asset_isin",
     "emitent_isin", "ticker", "asset_ticker"}

FieldOrder ==
    <<"asset_name", "weight.numeric", "weight.rounded", "isin", "asset_isin",
      "emitent_isin", "ticker", "asset_ticker">>

IsinKeys == <<"isin", "asset_isin", "emitent_isin">>
TickerKeys == <<"ticker", "asset_ticker">>

\* item.get(k1, item.get(k2, item.get(k3))): the value of the first key the
\* mapping has, None when it has none of them.
RECURSIVE NestedGet(_, _)
NestedGet(item, keys) ==
    IF keys = <<>> THEN Null ELSE Get(item, Head(keys), NestedGet(item, Tail(keys)))

\* item.get(k1, "") or item.get(k2, "") or ... or "": the first truthy value.
RECURSIVE OrChain(_, _)
OrChain(item, keys) ==
    IF keys = <<>> THEN Str(<<>>)
    ELSE Or(Get(item, Head(keys), Str(<<>>)), OrChain(item, Tail(keys)))

\* (or-chain).strip() if isinstance(nested get, str) else "": [ok, s], where
\* ok = FALSE stands for the AttributeError of .strip() on a value that is
\* not a string.
AliasVal(item, keys) ==
    IF NestedGet(item, keys).t = "str"
    THEN LET chosen == OrChain(item, keys)
         IN  IF chosen.t = "str"
             THEN [ok |-> TRUE, s |-> Strip(chosen.s)]
             ELSE [ok |-> FALSE, s |-> <<>>]
    ELSE [ok |-> TRUE, s |-> <<>>]

\* NameOf without the .strip().
NameOfUntrimmed(item) ==
    LET x == Get(item, "asset_name", Str(<<>>))
    IN  IF x.t = "str" THEN [ok |-> TRUE, s |-> x.s] ELSE [ok |-> FALSE, s |-> <<>>]

\* item.get("asset_name", "").strip(): [ok, s], ok = FALSE for the
\* AttributeError of .strip() on a value that is not a string.
NameOf(item) ==
    LET x == Get(item, "asset_name", Str(<<>>))
    IN  IF x.t = "str" THEN [ok |-> TRUE, s |-> Strip(x.s)] ELSE [ok |-> FALSE, s |-> <<>>]

\* ExtractWeight rounding weight.rounded to two places as well.
ExtractWeightRoundingBoth(item) ==
    LET weight_num == Get(item, "weight.numeric", Null)
        weight_rounded == Get(item, "weight.rounded", Null)
    IN  IF weight_num.t # "null"
        THEN IF ToFloat(weight_num).ok THEN Round2(ToFloat(weight_num).v * 100) ELSE 0
        ELSE IF weight_rounded.t # "null"
        THEN IF ToFloat(weight_rounded).ok THEN Round2(ToFloat(weight_rounded).v) ELSE 0
        ELSE 0

\* The weight of a record: weight.numeric times 100 rounded to two places
\* when it is not None, else weight.rounded as it is when it is not None,
\* else 0.0; 0.0 also when float() raises ValueError or TypeError.
ExtractWeight(item) ==
    LET weight_num == Get(item, "weight.numeric", Null)
        weight_rounded == Get(item, "weight.rounded", Null)
    IN  IF weight_num.t # "null"
        THEN IF ToFloat(weight_num).ok THEN Round2(ToFloat(weight_num).v * 100) ELSE 0
        ELSE IF weight_rounded.t # "null"
        THEN IF ToFloat(weight_rounded).ok THEN ToFloat(weight_rounded).v ELSE 0
        ELSE 0

\* entry = {"name": ..., "weight": ...}, plus "isin" and "ticker" when they
\* are not empty.
MakeEntry(name, weight, isin_val, ticker_val, src) ==
    LET base == [name |-> name, weight |-> weight, src |-> src]
    IN  CASE isin_val # <<>> /\ ticker_val # <<>> ->
               [name |-> name, weight |-> weight, src |-> src,
                isin |-> isin_val, ticker |-> ticker_val]
          [] isin_val # <<>> /\ ticker_val = <<>> ->
               [name |-> name, weight |-> weight, src |-> src, isin |-> isin_val]
          [] isin_val = <<>> /\ ticker_val # <<>> ->
               [name |-> name, weight |-> weight, src |-> src, ticker |-> ticker_val]
          [] OTHER -> base

\* One pass of the loop body over structure[i]: "raise" (an uncaught
\* AttributeError), "skip" (continue) or "append" with the entry.
LoopBody(item, i) ==
    LET name == NameOf(item)
        isin_val == AliasVal(item, IsinKeys)
        ticker_val == AliasVal(item, TickerKeys)
    IN  IF ~name.ok \/ ~isin_val.ok \/ ~ticker_val.ok
        THEN [do |-> "raise", entry |-> <<>>]
        ELSE IF name.s = <<>>
        THEN [do |-> "skip", entry |-> <<>>]
        ELSE [do |-> "append",
              entry |-> MakeEntry(name.s, ExtractWeight(item), isin_val.s, ticker_val.s, i)]

\* holdings.sort(key=weight, reverse=True): a stable sort, so an entry goes
\* behind every entry whose weight is at least its own.
RECURSIVE InsertDesc(_, _)
InsertDesc(sorted, e) ==
    IF sorted = <<>> THEN <<e>>
    ELSE IF Head(sorted).weight >= e.weight
    THEN <<Head(sorted)>> \o InsertDesc(Tail(sorted), e)
    ELSE <<e>> \o sorted

\* SortDesc putting an entry in front of the entries of its own weight.
RECURSIVE InsertBeforeEqual(_, _)
InsertBeforeEqual(sorted, e) ==
    IF sorted = <<>> THEN <<e>>
    ELSE IF Head(sorted).weight > e.weight
    THEN <<Head(sorted)>> \o InsertBeforeEqual(Tail(sorted), e)
    ELSE <<e>> \o sorted

RECURSIVE SortDescTiesReversed(_)
SortDescTiesReversed(entries) ==
    IF entries = <<>> THEN <<>>
    ELSE InsertBeforeEqual(SortDescTiesReversed(SubSeq(entries, 1, Len(entries) - 1)),
                           entries[Len(entries)])

RECURSIVE SortDesc(_)
SortDesc(entries) ==
    IF entries = <<>> THEN <<>>
    ELSE InsertDesc(SortDesc(SubSeq(entries, 1, Len(entries) - 1)), entries[Len(entries)])

\* list(structure[0].keys()) if structure else []
RECURSIVE KeysOf(_, _)
KeysOf(item, order) ==
    IF order = <<>> THEN <<>>
    ELSE (IF item[Head(order)].t = "absent" THEN <<>> ELSE <<Head(order)>>)
         \o KeysOf(item, Tail(order))

\* AvailableFields reading the last record instead of the first.
AvailableFieldsOfLast(records) ==
    IF records # <<>> THEN KeysOf(records[Len(records)], FieldOrder) ELSE <<>>

\* available_fields: the keys of the first record, nothing for an empty array.
AvailableFields(records) ==
    IF records # <<>> THEN KeysOf(records[1], FieldOrder) ELSE <<>>

\* ---------------------------------------------------------------- upstream
\* str.upper() on the letters the model's identifiers use.
UpperChar(c) ==
    CASE c = "i" -> "I" [] c = "e" -> "E" [] OTHER -> c

Upper(chars) == [i \in 1..Len(chars) |-> UpperChar(chars[i])]

\* sys.argv: the script name alone, or the script name and an identifier.
Argvs == {<<"cbonds_fetch.py">>, <<"cbonds_fetch.py", <<" ", "i", "e", "0", "0">>>>}

\* The `items` lists a suggest reply can hold: each item has an "id" or not.
ItemLists ==
    {<<>>, <<[hasId |-> TRUE, id |-> 1807]>>, <<[hasId |-> FALSE, id |-> 0]>>,
     <<[hasId |-> TRUE, id |-> 1807], [hasId |-> TRUE, id |-> 42]>>}

\* The bodies of a suggest reply: not JSON at all, a JSON list, or a JSON
\* object whose "response" is missing, null, an object without "items" or an
\* object with an "items" list.
SuggestBodies ==
    {[kind |-> "invalid", response |-> "absent", items |-> <<>>],
     [kind |-> "list", response |-> "absent", items |-> <<>>],
     [kind |-> "dict", response |-> "absent", items |-> <<>>],
     [kind |-> "dict", response |-> "null", items |-> <<>>],
     [kind |-> "dict", response |-> "noitems", items |-> <<>>]}
    \cup {[kind |-> "dict", response |-> "items", items |-> l] : l \in ItemLists}

StatusCodes == {200, 403, 404}

NoReply == [raises |-> FALSE, status |-> 0]

\* What requests.get(suggest_url) can do: raise, or return a reply.
SuggestReplies ==
    {[raises |-> TRUE, status |-> 0, body |-> b] :
        b \in {[kind |-> "invalid", response |-> "absent", items |-> <<>>]}}
    \cup {[raises |-> FALSE, status |-> c, body |-> b] : c \in StatusCodes, b \in SuggestBodies}

\* ResolveOutcome without the check of the status code.
ResolveOutcomeAnyStatus(reply) ==
    CASE reply.raises -> [out |-> "raise", id |-> 0]
      [] reply.body.kind # "dict" -> [out |-> "raise", id |-> 0]
      [] reply.body.response = "null" -> [out |-> "raise", id |-> 0]
      [] reply.body.items = <<>> -> [out |-> "noitems", id |-> 0]
      [] ~reply.body.items[1].hasId -> [out |-> "raise", id |-> 0]
      [] OTHER -> [out |-> "ok", id |-> reply.body.items[1].id]

\* Lines 40-48 on a reply that was returned: "status" (not 200), "raise" (an
\* exception of r.json(), of .get on a value that is no mapping, or of
\* items[0]["id"]), "noitems" (items is empty) or "ok" with the id.
ResolveOutcome(reply) ==
    CASE reply.raises -> [out |-> "raise", id |-> 0]
      [] reply.status # 200 -> [out |-> "status", id |-> 0]
      [] reply.body.kind # "dict" -> [out |-> "raise", id |-> 0]
      [] reply.body.response = "null" -> [out |-> "raise", id |-> 0]
      [] reply.body.items = <<>> -> [out |-> "noitems", id |-> 0]
      [] ~reply.body.items[1].hasId -> [out |-> "raise", id |-> 0]
      [] OTHER -> [out |-> "ok", id |-> reply.body.items[1].id]

\* ------------------------------------------------------------ page content
Rec(name, wnum, wrounded, isins, tickers) ==
    [f \in Fields |->
        CASE f = "asset_name" -> name
          [] f = "weight.numeric" -> wnum
          [] f = "weight.rounded" -> wrounded
          [] f = "isin" -> isins[1]
          [] f = "asset_isin" -> isins[2]
          [] f = "emitent_isin" -> isins[3]
          [] f = "ticker" -> tickers[1]
          [] f = "asset_ticker" -> tickers[2]]

NoIds == <<Absent, Absent, Absent>>
NoTickers == <<Absent, Absent>>

\* Records of mixed quality, combined into arrays of up to MaxLen records.
MixRecords ==
    {Rec(Str(<<"a">>), Num(71234), Absent, NoIds, NoTickers),
     Rec(Str(<<>>), Num(50000), Absent, NoIds, NoTickers),
     Rec(Str(<<"m">>), Absent, Num(5000000), NoIds, NoTickers),
     Rec(Str(<<" ", "b", " ">>), Num(50000), Num(9000000), NoIds, NoTickers),
     Rec(Absent, Absent, Absent, <<Str(<<"x">>), Absent, Absent>>, NoTickers),
     Rec(Null, Num(50000), Absent, NoIds, NoTickers),
     Rec(Str(<<"g">>), Absent, Absent, NoIds, <<Absent, Str(<<" ", "t">>)>>),
     Rec(Str(<<" ">>), Absent, Num(9000000), NoIds, NoTickers)}

NameValues ==
    {Absent, Null, Str(<<>>), Str(<<" ">>), Str(<<"n">>), Str(<<" ", "n", " ", "n", " ">>),
     Num(7), Bool(TRUE), EmptyList, EmptyMap}

NumericValues ==
    {Absent, Null, Num(45573), Num(1250), Num(3750), Num(-45573), Num(0),
     Str(<<"0", ".", "0", "5">>), Str(<<"a", "b", "c">>), Str(<<>>),
     Bool(TRUE), Bool(FALSE), EmptyList, EmptyMap}

RoundedValues ==
    {Absent, Null, Num(5000000), Num(5123000), Num(-250000),
     Str(<<" ", "5", ".", "0", " ">>), Str(<<"n", "/", "a">>), Bool(TRUE), EmptyList, EmptyMap}

\* The values an alias field takes; the letter tells the fields apart.
AliasValues(c) == {Absent, Null, Str(<<>>), Str(<<" ">>), Str(<<" ", c>>), Num(5)}

NameRecords == {Rec(n, Num(50000), Absent, NoIds, NoTickers) : n \in NameValues}

WeightRecords ==
    {Rec(Str(<<"w">>), n, r, NoIds, NoTickers) : n \in NumericValues, r \in RoundedValues}

IsinRecords ==
    {Rec(Str(<<"i">>), Absent, Absent, <<a, b, c>>, NoTickers) :
        a \in AliasValues("a"), b \in AliasValues("b"), c \in AliasValues("c")}

TickerRecords ==
    {Rec(Str(<<"t">>), Absent, Absent, NoIds, <<a, b>>) :
        a \in AliasValues("a"), b \in AliasValues("b")}

SeqsUpTo(S, n) == UNION {[1..k -> S] : k \in 0..n}

\* The arrays the page's structure literal can parse to.
Structures ==
    SeqsUpTo(MixRecords, MaxLen)
    \cup {<<r>> : r \in NameRecords \cup WeightRecords \cup IsinRecords \cup TickerRecords}

\* r.text, as the extraction sees it: whether the regular expression finds a
\* structure literal, whether json.loads accepts it, and the array it gives.
Htmls ==
    {[found |-> FALSE, valid |-> FALSE, array |-> <<>>],
     [found |-> TRUE, valid |-> FALSE, array |-> <<>>]}
    \cup {[found |-> TRUE, valid |-> TRUE, array |-> a] : a \in Structures}

NoHtml == [found |-> FALSE, valid |-> FALSE, array |-> <<>>]

\* What requests.get(etf_url) can do: raise, or return a reply.
PageReplies ==
    {[raises |-> TRUE, status |-> 0, text |-> NoHtml]}
    \cup {[raises |-> FALSE, status |-> c, text |-> NoHtml] : c \in StatusCodes \ {200}}
    \cup {[raises |-> FALSE, status |-> 200, text |-> h] : h \in Htmls}

\* ------------------------------------------------------------------- state
VARIABLES
    pc,          \* where main() is: "args", "import", "resolve", "fetch",
                 \* "extract", "normalize", "emit"; "exited" after sys.exit or
                 \* the return of main(); "crashed" after an uncaught exception
    argv,        \* sys.argv
    curl_installed, \* whether the curl_cffi package can be imported
    isin,        \* the identifier, stripped and upper-cased
    suggest,     \* the reply of the suggest API
    page,        \* the reply of the ETF page
    requests,    \* the network requests made so far, in order
    cbonds_id,   \* items[0]["id"]
    structure,   \* the parsed structure array
    idx,         \* number of records the loop has been through
    holdings,    \* the holdings list
    stdout,      \* the JSON objects printed so far
    exitCode     \* the process exit status, -1 while the process runs

vars ==
    <<pc, argv, curl_installed, isin, suggest, page, requests, cbonds_id, structure, idx, holdings,
      stdout, exitCode>>

Init ==
    /\ pc = "args"
    /\ argv \in Argvs
    /\ curl_installed \in BOOLEAN
    /\ isin = <<>>
    /\ suggest = NoReply
    /\ page = NoReply
    /\ requests = <<>>
    /\ cbonds_id = 0
    /\ structure = <<>>
    /\ idx = 0
    /\ holdings = <<>>
    /\ stdout = <<>>
    /\ exitCode = -1

\* print(json.dumps(obj)); sys.exit(code)
PrintAndExit(obj, code) ==
    /\ stdout' = Append(stdout, obj)
    /\ exitCode' = code
    /\ pc' = "exited"

\* An exception nothing catches: the interpreter writes a traceback to
\* standard error and ends the process with status 1.
Uncaught ==
    /\ pc' = "crashed"
    /\ exitCode' = 1
    /\ UNCHANGED stdout

\* Lines 19-23.
CheckArgs ==
    /\ pc = "args"
    /\ IF Len(argv) < 2
       THEN /\ PrintAndExit([error |-> "Missing ISIN argument"], 1)
            /\ UNCHANGED isin
       ELSE /\ isin' = Upper(Strip(argv[2]))
            /\ pc' = "import"
            /\ UNCHANGED <<stdout, exitCode>>
    /\ UNCHANGED <<argv, curl_installed, suggest, page, requests, cbonds_id, structure, idx, holdings>>

\* Lines 25-29.
ImportCurl ==
    /\ pc = "import"
    /\ IF curl_installed
       THEN /\ pc' = "resolve"
            /\ UNCHANGED <<stdout, exitCode>>
       ELSE PrintAndExit([error |-> "curl_cffi not installed"], 1)
    /\ UNCHANGED <<argv, curl_installed, isin, suggest, page, requests, cbonds_id, structure, idx, holdings>>

\* Lines 31-51.
Resolve ==
    /\ pc = "resolve"
    /\ \E reply \in SuggestReplies :
          /\ suggest' = reply
          /\ requests' = Append(requests, "suggest")
          /\ LET res == ResolveOutcome(reply)
             IN  CASE res.out = "status" ->
                        /\ PrintAndExit([error |-> "Suggest API returned status"], 1)
                        /\ UNCHANGED cbonds_id
                   [] res.out = "noitems" ->
                        /\ PrintAndExit([error |-> "No ETF found on cbonds for ISIN",
                                          holdings |-> <<>>], 0)
                        /\ UNCHANGED cbonds_id
                   [] res.out = "raise" ->
                        /\ PrintAndExit([error |-> "Failed to resolve cbonds ID"], 1)
                        /\ UNCHANGED cbonds_id
                   [] OTHER ->
                        /\ cbonds_id' = res.id
                        /\ pc' = "fetch"
                        /\ UNCHANGED <<stdout, exitCode>>
    /\ UNCHANGED <<argv, curl_installed, isin, page, structure, idx, holdings>>

\* Lines 53-63.
Fetch ==
    /\ pc = "fetch"
    /\ \E reply \in PageReplies :
          /\ page' = reply
          /\ requests' = Append(requests, "page")
          /\ CASE reply.raises -> PrintAndExit([error |-> "Failed to fetch ETF page"], 1)
               [] reply.status # 200 -> PrintAndExit([error |-> "ETF page returned status"], 1)
               [] OTHER -> /\ pc' = "extract"
                           /\ UNCHANGED <<stdout, exitCode>>
    /\ UNCHANGED <<argv, curl_installed, isin, suggest, cbonds_id, structure, idx, holdings>>

\* Lines 65-80.
Extract ==
    /\ pc = "extract"
    /\ CASE ~page.text.found ->
              /\ PrintAndExit([error |-> "Could not find structure data in page",
                                holdings |-> <<>>, cbondsId |-> cbonds_id], 0)
              /\ UNCHANGED structure
         [] ~page.text.valid ->
              /\ PrintAndExit([error |-> "Failed to parse structure JSON"], 1)
              /\ UNCHANGED structure
         [] OTHER ->
              /\ structure' = page.text.array
              /\ pc' = "normalize"
              /\ UNCHANGED <<stdout, exitCode>>
    /\ UNCHANGED <<argv, curl_installed, isin, suggest, page, requests, cbonds_id, idx, holdings>>

\* Lines 81-123: one pass of the loop.
NormalizeItem ==
    /\ pc = "normalize"
    /\ idx < Len(structure)
    /\ LET step == LoopBody(structure[idx + 1], idx + 1)
       IN  CASE step.do = "raise" ->
                  /\ Uncaught
                  /\ UNCHANGED <<idx, holdings>>
             [] step.do = "skip" ->
                  /\ idx' = idx + 1
                  /\ UNCHANGED <<pc, holdings, stdout, exitCode>>
             [] OTHER ->
                  /\ idx' = idx + 1
                  /\ holdings' = Append(holdings, step.entry)
                  /\ UNCHANGED <<pc, stdout, exitCode>>
    /\ UNCHANGED <<argv, curl_installed, isin, suggest, page, requests, cbonds_id, structure>>

\* Lines 125-137, and the return of main().
Emit ==
    /\ pc = "normalize"
    /\ idx = Len(structure)
    /\ holdings' = SortDesc(holdings)
    /\ PrintAndExit([holdings |-> holdings', cbondsId |-> cbonds_id,
                     totalCount |-> Len(holdings'),
                     availableFields |-> AvailableFields(structure)], 0)
    /\ UNCHANGED <<argv, curl_installed, isin, suggest, page, requests, cbonds_id, structure, idx>>

Next == CheckArgs \/ ImportCurl \/ Resolve \/ Fetch \/ Extract \/ NormalizeItem \/ Emit

Spec == Init /\ [][Next]_vars

\* ------------------------------------------------------------- properties
Terminated == pc \in {"exited", "crashed"}

\* The success report has been printed.
Emitted ==
    /\ pc = "exited"
    /\ Len(stdout) = 1
    /\ "availableFields" \in DOMAIN stdout[1]

Requested(what) == \E i \in 1..Len(requests) : requests[i] = what

\* The resolution step failed on its reply: an exception of the request, of
\* decoding the body or of reading the first item's id.
SuggestRaised ==
    \/ suggest.raises
    \/ suggest.body.kind # "dict"
    \/ suggest.body.response = "null"
    \/ (suggest.body.items # <<>> /\ ~suggest.body.items[1].hasId)

\* The hard failures, told from the inputs of the run.
HardFailure ==
    \/ Len(argv) < 2
    \/ ~curl_installed
    \/ (Requested("suggest") /\ (suggest.raises \/ suggest.status # 200 \/ SuggestRaised))
    \/ (Requested("page") /\ (page.raises \/ page.status # 200))
    \/ (Requested("page") /\ ~page.raises /\ page.status = 200
          /\ page.text.found /\ ~page.text.valid)

\* The soft failures: the suggest API found nothing, the page has no literal.
NoItems ==
    /\ Requested("suggest") /\ ~suggest.raises /\ suggest.status = 200
    /\ suggest.body.kind = "dict" /\ suggest.body.response # "null"
    /\ suggest.body.items = <<>>

NoLiteral ==
    /\ Requested("page") /\ ~page.raises /\ page.status = 200 /\ ~page.text.found

SoftOutput ==
    /\ Len(stdout) = 1
    /\ "error" \in DOMAIN stdout[1]
    /\ "holdings" \in DOMAIN stdout[1]
    /\ stdout[1].holdings = <<>>

\* C1: when the process has ended, its exit status is non-zero exactly when a
\* hard failure happened (no argument, no curl_cffi, a failing or non-200
\* suggest or page request, a structure literal that is not JSON), and in the
\* two soft failures the status is zero and the printed object has an error
\* and an empty holdings list.
ExitStatusContract ==
    Terminated =>
        /\ (exitCode # 0) <=> HardFailure
        /\ (NoItems \/ NoLiteral) => (exitCode = 0 /\ SoftOutput)

\* The same contract over the runs that no uncaught exception ended.
ExitStatusContractOfExits ==
    pc = "exited" =>
        /\ (exitCode # 0) <=> HardFailure
        /\ (NoItems \/ NoLiteral) => (exitCode = 0 /\ SoftOutput)

\* C2: when the process has ended, exactly one JSON object has been printed.
OneObjectPrinted == Terminated => Len(stdout) = 1

\* At most one object is ever printed, and a run that sys.exit or the return
\* of main() ended printed exactly one.
OneObjectPrintedOfExits ==
    /\ Len(stdout) <= 1
    /\ pc = "exited" => Len(stdout) = 1

\* C3: the normalization loop never raises, whatever JSON values the fields
\* of the records (all of them mappings) hold.
NormalizationNeverRaises == pc # "crashed"

PrintedHoldings == stdout[1].holdings

Missing(x) == x.t \in {"absent", "null"}

Hundredth == Unit \div 100

Abs(n) == IF n < 0 THEN -n ELSE n

\* C4: in a report, an entry whose record has a number in weight.numeric has
\* that number times 100 rounded to two places as its weight (a multiple of
\* 0.01 at most 0.005 away), whatever weight.rounded holds.
WeightFromNumeric ==
    Emitted =>
        \A i \in 1..Len(PrintedHoldings) :
            LET e == PrintedHoldings[i]
                wn == structure[e.src]["weight.numeric"]
            IN  wn.t = "num" =>
                    /\ e.weight % Hundredth = 0
                    /\ 2 * Abs(e.weight - 100 * wn.v) <= Hundredth

\* A report with an entry whose weight.numeric was rounded (its hundredfold
\* is no multiple of 0.01) while weight.rounded holds another number.
WeightFromNumericWitness ==
    /\ Emitted
    /\ \E i \in 1..Len(PrintedHoldings) :
          LET e == PrintedHoldings[i]
              wn == structure[e.src]["weight.numeric"]
              wr == structure[e.src]["weight.rounded"]
          IN  /\ wn.t = "num" /\ wr.t = "num"
              /\ e.weight # 100 * wn.v
              /\ e.weight # wr.v

\* No character of the string is a digit: float() raises ValueError on it.
NoDigit(chars) == \A i \in 1..Len(chars) : DigitValue(chars[i]) < 0

\* A value float() cannot convert.
Unconvertible(x) == x.t \in {"list", "map"} \/ (x.t = "str" /\ NoDigit(x.s))

Usable(item) ==
    /\ item["asset_name"].t = "str"
    /\ \E i \in 1..Len(item["asset_name"].s) : ~IsSpace(item["asset_name"].s[i])

Spaces(n) == [i \in 1..n |-> " "]

\* C7: in a report every entry's name is not empty, has no whitespace at
\* either end and is its record's asset_name without the surrounding
\* whitespace; the entries are, one each, the records with a usable name;
\* and totalCount is the number of entries.
NamedEntriesOnly ==
    Emitted =>
        /\ \A i \in 1..Len(PrintedHoldings) :
              LET e == PrintedHoldings[i]
                  raw == structure[e.src]["asset_name"]
              IN  /\ e.name # <<>>
                  /\ ~IsSpace(e.name[1]) /\ ~IsSpace(e.name[Len(e.name)])
                  /\ raw.t = "str"
                  /\ \E a, b \in 0..Len(raw.s) : raw.s = Spaces(a) \o e.name \o Spaces(b)
        /\ {PrintedHoldings[i].src : i \in 1..Len(PrintedHoldings)}
              = {k \in 1..Len(structure) : Usable(structure[k])}
        /\ \A i, j \in 1..Len(PrintedHoldings) :
              PrintedHoldings[i].src = PrintedHoldings[j].src => i = j
        /\ stdout[1].totalCount = Len(PrintedHoldings)

\* The report of a named record of weight 0.071234, a record with an empty
\* name and a named record with the rounded weight 5.0: two entries, 7.12 and
\* 5.0, and totalCount 2.
NamedEntriesOnlyWitness ==
    /\ Emitted
    /\ Len(structure) = 3
    /\ structure[1]["weight.numeric"] = Num(71234)
    /\ structure[2]["asset_name"] = Str(<<>>)
    /\ structure[3]["weight.rounded"] = Num(5000000)
    /\ Len(PrintedHoldings) = 2
    /\ PrintedHoldings[1].src = 1 /\ PrintedHoldings[1].weight = 7120000
    /\ PrintedHoldings[2].src = 3 /\ PrintedHoldings[2].weight = 5000000
    /\ stdout[1].totalCount = 2

\* The first of the keys whose value is a string with a character that is no
\* whitespace, without its surrounding whitespace; empty when there is none.
RECURSIVE FirstNonEmpty(_, _)
FirstNonEmpty(item, keys) ==
    IF keys = <<>> THEN <<>>
    ELSE IF item[Head(keys)].t = "str" /\ Strip(item[Head(keys)].s) # <<>>
    THEN Strip(item[Head(keys)].s)
    ELSE FirstNonEmpty(item, Tail(keys))

AliasAgrees(e, key, expected) ==
    IF expected = <<>> THEN key \notin DOMAIN e
    ELSE key \in DOMAIN e /\ e[key] = expected

\* C8: in a report every entry's isin is the trimmed first non-empty string
\* among isin, asset_isin, emitent_isin (whatever the fields before it hold),
\* its ticker likewise among ticker, asset_ticker, and a key with no such
\* string is left out.
AliasPriority ==
    Emitted =>
        \A i \in 1..Len(PrintedHoldings) :
            LET e == PrintedHoldings[i]
                item == structure[e.src]
            IN  /\ AliasAgrees(e, "isin", FirstNonEmpty(item, IsinKeys))
                /\ AliasAgrees(e, "ticker", FirstNonEmpty(item, TickerKeys))

\* C9: in a report availableFields lists, once each, the keys of the first
\* raw record, and nothing when the array is empty; an empty array gives no
\* holdings, totalCount 0, no availableFields and exit status 0.
FieldsOfFirstRecord ==
    Emitted =>
        LET fields == stdout[1].availableFields
        IN  /\ {fields[i] : i \in 1..Len(fields)}
                  = (IF structure = <<>> THEN {}
                     ELSE {f \in Fields : structure[1][f].t # "absent"})
            /\ \A i, j \in 1..Len(fields) : fields[i] = fields[j] => i = j
            /\ structure = <<>> =>
                  /\ PrintedHoldings = <<>>
                  /\ stdout[1].totalCount = 0
                  /\ fields = <<>>
                  /\ exitCode = 0

\* A report whose first raw record has keys but no name, so that it is not in
\* holdings, and whose other records have other keys.
FieldsOfFirstRecordWitness ==
    /\ Emitted
    /\ Len(structure) >= 2
    /\ PrintedHoldings # <<>>
    /\ \A i \in 1..Len(PrintedHoldings) : PrintedHoldings[i].src # 1
    /\ stdout[1].availableFields # <<>>
    /\ \A k \in 2..Len(structure) :
          KeysOf(structure[k], FieldOrder) # stdout[1].availableFields

SuggestFound ==
    /\ ~suggest.raises /\ suggest.status = 200
    /\ suggest.body.kind = "dict" /\ suggest.body.items # <<>>

PageParsed ==
    /\ ~page.raises /\ page.status = 200
    /\ page.text.found /\ page.text.valid

\* C10: the requests are the suggest request and then, at most once, the page
\* request; the page is requested only after a 200 reply with items; the
\* records are normalized only after a 200 page whose literal was found and
\* parsed; and once anything is printed the run is over, with no stage after
\* the one that failed.
StagesInOrder ==
    /\ requests \in {<<>>, <<"suggest">>, <<"suggest", "page">>}
    /\ Requested("suggest") => (Len(argv) >= 2 /\ curl_installed)
    /\ Requested("page") => SuggestFound
    /\ ~Requested("suggest") => suggest = NoReply
    /\ ~Requested("page") => page = NoReply
    /\ (pc \in {"normalize", "crashed"} \/ idx > 0 \/ holdings # <<>> \/ structure # <<>>)
          => (PageParsed /\ structure = page.text.array)
    /\ stdout # <<>> => (pc = "exited" /\ Len(stdout) = 1 /\ ~ENABLED Next)
    /\ (stdout # <<>> /\ "error" \in DOMAIN stdout[1])
          => (idx = 0 /\ holdings = <<>> /\ structure = <<>>)
    /\ Emitted => (PageParsed /\ idx = Len(structure))

\* A run that went through every stage and printed a report with holdings.
StagesInOrderWitness ==
    /\ Emitted
    /\ requests = <<"suggest", "page">>
    /\ idx = 3
    /\ Len(PrintedHoldings) = 2

====
